---- MODULE Spec2Model ----
(***************************************************************************)
(* A model of the shadow synchronisation core of personal-box-freertos-demo *)
(*   src/src/shadow_client.c  prvUpdateDeltaHandler, prvEventCallback,      *)
(*                            publishCurrentStateTask, RunDeviceShadowClient,*)
(*                            subscribeUpdateTask                            *)
(*   src/src/device.c         eChangeLockState, runActuatorTask             *)
(*   src/src/controller.c     eControllerRun (task creation, priorities)    *)
(*                                                                          *)
(* A delta payload is modelled by what coreJSON reports about it: whether   *)
(* JSON_Validate accepts it and, for the keys "version" and                 *)
(* "state.lockState", whether JSON_Search finds the key and which text it   *)
(* returns.  The text is a token: an unsigned integer literal, or a text    *)
(* strtoul cannot convert.                                                  *)
(***************************************************************************)
EXTENDS Integers, Sequences, FiniteSets, TLC

\* ------------------------------------------------------------------ bounds
\* Integer literals carried by the payload fields range over 0..MaxVersion.
MaxVersion == 2
\* The delta handler gives the actuator at most MaxWakes wake notifications.
MaxWakes == 2

\* --------------------------------------------------------- program constants
LOCK_STATE_OPEN == 1
LOCK_STATE_CLOSE == 0

VARIABLES
    \* subscribeUpdateTask / RunDeviceShadowClient (the MQTT task)
    pcM,                 \* position of the MQTT task
    actuatorHandle,      \* static TaskHandle_t actuatorHandle
    ulCurrentVersion,    \* static local of prvUpdateDeltaHandler
    ulCurrentLockState,  \* static uint32_t ulCurrentLockState
    stateChanged,        \* static bool stateChanged
    xUpdateDeltaReturn,  \* static BaseType_t xUpdateDeltaReturn
    \* runActuatorTask
    pcA,                 \* position of the actuator task
    actuatorNotify,      \* notification value of the actuator task
    lockLine,            \* level of M5STICKC_LOCK_GPIO
    \* publishCurrentStateTask
    pcP,                 \* position of the publish task
    publishNotify,       \* notification value of the publish task
    xPubAckWaitLock,     \* "NULL", or the binary semaphore: "empty" or "full"
    docDesired,          \* first %01d argument already read by snprintf
    inflight,            \* publishes sent whose PUBACK has not arrived yet
    \* history variables (observation only; no action reads them)
    lastMsg,             \* payload of the latest prvUpdateDeltaHandler call
    pre,                 \* handler-visible state just before that call
    firstSeen,           \* version -> lockState field at its first arrival
    illFormed,           \* some delta so far was not a well-formed one
    nWake,               \* wake notifications given to the actuator
    nTaken,              \* wakes the actuator consumed
    nDone,               \* completion notifications the actuator sent
    published,           \* documents published in the publish task's cycle
    \* app_network.c (the connectivity manager)
    netCfg,              \* the build's configuration and the caller's context
    pcN,                 \* position of the caller inside network_initialize
    subscribed,          \* _onNetworkStateChangeCallback is registered
    demoConnectedNetwork, \* static uint32_t demoConnectedNetwork
    demoNetworkSemaphore, \* static IotSemaphore_t demoNetworkSemaphore
    mgrEnabled,          \* network types the network manager has enabled
    mgrConnected,        \* AwsIotNetworkManager_GetConnectedNetworks()
    netLast,             \* history: the latest state-change event handled
    netPrev,             \* history: the event handled before it
    \* the tick counter and the publish task's token and buffer
    xTickCount,          \* the kernel's tick count, as two 16-bit limbs
    ulClientToken,       \* static uint32_t ulClientToken
    pcUpdateDocument     \* static char pcUpdateDocument[], as last serialized

mqttVars == <<pcM, actuatorHandle, ulCurrentVersion, ulCurrentLockState,
              stateChanged, xUpdateDeltaReturn>>
actVars == <<pcA, actuatorNotify, lockLine>>
pubVars == <<pcP, publishNotify, xPubAckWaitLock, docDesired, inflight>>
deltaHist == <<lastMsg, pre, firstSeen, illFormed>>
taskHist == <<nWake, nTaken, nDone, published>>
netVars == <<netCfg, pcN, subscribed, demoConnectedNetwork,
             demoNetworkSemaphore, mgrEnabled, mgrConnected, netLast, netPrev>>
tokVars == <<xTickCount, ulClientToken, pcUpdateDocument>>
vars == <<mqttVars, actVars, pubVars, deltaHist, taskHist, netVars, tokVars>>

\* ------------------------------------------------------------ delta payloads
Absent == [kind |-> "absent", n |-> 0]
Text == [kind |-> "text", n |-> 0]
IntTok(n) == [kind |-> "int", n |-> n]
Tokens == {Absent, Text} \cup {IntTok(n) : n \in 0 .. MaxVersion}

\* One payload that JSON_Validate rejects (a truncated document in which both
\* keys could still be found), and every valid one.
InvalidMsg == [valid |-> FALSE, version |-> IntTok(MaxVersion),
               lockState |-> IntTok(1)]
Msgs == {InvalidMsg} \cup [valid : {TRUE}, version : Tokens, lockState : Tokens]
NoMsg == [valid |-> FALSE, version |-> Text, lockState |-> Text]

\* strtoul(text, NULL, 10) cast to uint32_t: a text without leading digits
\* converts to 0, an unsigned literal to its value (the literals in use are
\* far below 2^32, so neither the saturation nor the cast changes them).
strtoul(tok) == IF tok.kind = "int" THEN tok.n ELSE 0

\* Mutant: the result of JSON_Validate is ignored.
JSON_ValidateSkipped(m) == TRUE

JSON_Validate(m) == m.valid

\* JSON_Search: found or not, and the text handed back through pcOutValue.
JSON_Search(m, key) ==
    LET tok == IF key = "version" THEN m.version ELSE m.lockState
    IN [found |-> tok.kind # "absent", out |-> tok]

\* ------------------------------------------------------ prvUpdateDeltaHandler
\* Mutant: any version other than the current one passes the gate.
VersionGateNotEqual(ulVersion, cur) == ulVersion # cur

\* if (ulVersion > ulCurrentVersion)
VersionGate(ulVersion, cur) == ulVersion > cur

\* Mutant: the new state is applied without comparing it.
StateDiffersAlways(ulNewState, cur) == TRUE

\* if (ulNewState != ulCurrentLockState)
StateDiffers(ulNewState, cur) == ulNewState # cur

\* Mutant: every state but Closed wakes the actuator.
GivesWakeUnlessClosed(ulNewState) == ulNewState # LOCK_STATE_CLOSE

\* if (ulNewState == LOCK_STATE_OPEN) xTaskNotifyGive(actuatorHandle)
GivesWake(ulNewState) == ulNewState = LOCK_STATE_OPEN

\* The handler's locals after each statement, as the code computes them:
\* `result` and `pcOutValue` are shared by the version search and the
\* lockState search, and the final test reads whatever they hold.
HandlerLocals(m, cur) ==
    LET valid == JSON_Validate(m)
        sv == JSON_Search(m, "version")
        result1 == valid /\ sv.found
        out1 == IF result1 THEN sv.out ELSE Absent
        ulVersion == IF result1 THEN strtoul(out1) ELSE 0
        newer == VersionGate(ulVersion, cur)
        ss == JSON_Search(m, "state.lockState")
        result2 == IF newer THEN ss.found ELSE result1
        out2 == IF newer /\ ss.found THEN ss.out ELSE out1
    IN [ulVersion |-> ulVersion, newer |-> newer, result |-> result2,
        ulNewState |-> IF result2 THEN strtoul(out2) ELSE 0]

\* The handler's effect on the variables it writes.
DeltaOutcome(m, ver, lock) ==
    LET l == HandlerLocals(m, ver)
        change == l.result /\ StateDiffers(l.ulNewState, lock)
    IN [version |-> IF l.newer THEN l.ulVersion ELSE ver,
        lock |-> IF change THEN l.ulNewState ELSE lock,
        changed |-> change,
        wake |-> change /\ GivesWake(l.ulNewState),
        fail |-> ~l.result]

HandlerState == [version |-> ulCurrentVersion, lock |-> ulCurrentLockState,
                 changed |-> stateChanged, ret |-> xUpdateDeltaReturn,
                 notify |-> actuatorNotify]

\* A delta as the cloud sends it: valid JSON, a version that is a natural
\* number, a lockState that is 0 or 1.
WellFormed(m) ==
    /\ m.valid
    /\ m.version.kind = "int"
    /\ m.lockState.kind = "int" /\ m.lockState.n \in {0, 1}

\* Mutant: the handler waits until the actuator has taken the previous wake
\* before it gives the next one.
prvUpdateDeltaHandlerWaits(m) ==
    LET o == DeltaOutcome(m, ulCurrentVersion, ulCurrentLockState)
    IN /\ o.wake => nWake < MaxWakes
       /\ o.wake => actuatorNotify = 0
       /\ ulCurrentVersion' = o.version
       /\ ulCurrentLockState' = o.lock
       /\ stateChanged' = (stateChanged \/ o.changed)
       /\ xUpdateDeltaReturn' = IF o.fail THEN "pdFAIL" ELSE xUpdateDeltaReturn
       /\ actuatorNotify' = IF o.wake THEN actuatorNotify + 1 ELSE actuatorNotify
       /\ nWake' = IF o.wake THEN nWake + 1 ELSE nWake

\* The whole handler: it has no wait in it, only assignments and
\* xTaskNotifyGive.  The guard on nWake is the bound of the wake count.
prvUpdateDeltaHandler(m) ==
    LET o == DeltaOutcome(m, ulCurrentVersion, ulCurrentLockState)
    IN /\ o.wake => nWake < MaxWakes
       /\ ulCurrentVersion' = o.version
       /\ ulCurrentLockState' = o.lock
       /\ stateChanged' = (stateChanged \/ o.changed)
       /\ xUpdateDeltaReturn' = IF o.fail THEN "pdFAIL" ELSE xUpdateDeltaReturn
       /\ actuatorNotify' = IF o.wake THEN actuatorNotify + 1 ELSE actuatorNotify
       /\ nWake' = IF o.wake THEN nWake + 1 ELSE nWake

\* The history of the deltas handled so far.
RecordDelta(m) ==
    /\ lastMsg' = m
    /\ pre' = HandlerState
    /\ illFormed' = (illFormed \/ ~WellFormed(m))
    /\ firstSeen' =
         IF WellFormed(m) /\ m.version.n > 0 /\ firstSeen[m.version.n] = -1
         THEN [firstSeen EXCEPT ![m.version.n] = m.lockState.n]
         ELSE firstSeen

\* --------------------------------------------------------- prvEventCallback
\* The packets MQTT_ProcessLoop hands to the callback: a PUBLISH on the
\* update/delta topic with its payload, a PUBLISH on another topic (a shadow
\* topic of another type, or a topic Shadow_MatchTopic does not parse), a
\* PUBACK, and any other packet.
DeltaPacket(m) == [type |-> "PUBLISH", topic |-> "update/delta", payload |-> m]
OtherPublish == [type |-> "PUBLISH", topic |-> "other", payload |-> InvalidMsg]
PubAck == [type |-> "PUBACK", topic |-> "", payload |-> InvalidMsg]
OtherPacket == [type |-> "SUBACK", topic |-> "", payload |-> InvalidMsg]
Packets == {DeltaPacket(m) : m \in Msgs} \cup {OtherPublish, PubAck, OtherPacket}

\* xSemaphoreGive on a binary semaphore: it becomes full (a give on a full
\* semaphore fails and leaves it full).
xSemaphoreGive(sem) == "full"

prvEventCallback(pkt) ==
    IF pkt.type = "PUBLISH"
    THEN IF pkt.topic = "update/delta"
         THEN prvUpdateDeltaHandler(pkt.payload) /\ UNCHANGED xPubAckWaitLock
         ELSE UNCHANGED <<ulCurrentVersion, ulCurrentLockState, stateChanged,
                          xUpdateDeltaReturn, actuatorNotify, nWake,
                          xPubAckWaitLock>>
    ELSE /\ xPubAckWaitLock' =
              IF pkt.type = "PUBACK" /\ xPubAckWaitLock # "NULL"
              THEN xSemaphoreGive(xPubAckWaitLock) ELSE xPubAckWaitLock
         /\ UNCHANGED <<ulCurrentVersion, ulCurrentLockState, stateChanged,
                        xUpdateDeltaReturn, actuatorNotify, nWake>>

\* --------------------------------------- subscribeUpdateTask (the MQTT task)
\* status = network_initialize(&appMqttContext); a failure returns.
NetworkInitialize ==
    /\ pcM = "netinit"
    /\ \E ok \in BOOLEAN : pcM' = IF ok THEN "establish" ELSE "exit"
    /\ UNCHANGED <<actuatorHandle, ulCurrentVersion, ulCurrentLockState,
                   stateChanged, xUpdateDeltaReturn>>
    /\ UNCHANGED <<actVars, pubVars, deltaHist, taskHist>>
    /\ UNCHANGED netVars
    /\ UNCHANGED tokVars

\* Mutant: RunDeviceShadowClient reports success whatever happened.
RunDeviceShadowClientReturnsSuccess(xDemoStatus) == "EXIT_SUCCESS"

\* return ((xDemoStatus == pdPASS) ? EXIT_SUCCESS : EXIT_FAILURE); the value is
\* the position the MQTT task ends in, since subscribeUpdateTask then returns.
RunDeviceShadowClientReturn(xDemoStatus) ==
    IF xDemoStatus = "pdPASS" THEN "EXIT_SUCCESS" ELSE "EXIT_FAILURE"

\* RunDeviceShadowClient: actuatorHandle = *pHandle; EstablishMqttSession; a
\* pdFAIL skips the subscription and the loop.
EstablishMqttSession ==
    /\ pcM = "establish"
    /\ actuatorHandle' = "actuator"
    /\ \E xDemoStatus \in {"pdPASS", "pdFAIL"} :
           pcM' = IF xDemoStatus = "pdFAIL"
                  THEN RunDeviceShadowClientReturn(xDemoStatus)
                  ELSE "subscribe"
    /\ UNCHANGED <<ulCurrentVersion, ulCurrentLockState, stateChanged,
                   xUpdateDeltaReturn>>
    /\ UNCHANGED <<actVars, pubVars, deltaHist, taskHist>>
    /\ UNCHANGED netVars
    /\ UNCHANGED tokVars

\* SubscribeToTopic on update/delta; only success enters the receive loop.
SubscribeToTopic ==
    /\ pcM = "subscribe"
    /\ \E xDemoStatus \in {"pdPASS", "pdFAIL"} :
           pcM' = IF xDemoStatus = "pdPASS"
                  THEN "loop"
                  ELSE RunDeviceShadowClientReturn(xDemoStatus)
    /\ UNCHANGED <<actuatorHandle, ulCurrentVersion, ulCurrentLockState,
                   stateChanged, xUpdateDeltaReturn>>
    /\ UNCHANGED <<actVars, pubVars, deltaHist, taskHist>>
    /\ UNCHANGED netVars
    /\ UNCHANGED tokVars

\* The results MQTT_ProcessLoop can hand back (MQTTStatus_t).
MQTTStatuses ==
    {"MQTTSuccess", "MQTTRecvFailed", "MQTTBadResponse", "MQTTKeepAliveTimeout"}

\* Mutant: the loop is left when MQTT_ProcessLoop reports an error.
AfterProcessLoopChecked(status) ==
    IF status = "MQTTSuccess" THEN "loop" ELSE "EXIT_FAILURE"

\* The body of while (true): the result is stored in xDemoStatus, the test is
\* on eMqttStatus, which is always MQTTSuccess, and nothing breaks the loop.
AfterProcessLoop(status) == "loop"

\* One turn of the loop: whatever MQTT_ProcessLoop returned, the next position.
LoopAgain == pcM' \in {AfterProcessLoop(status) : status \in MQTTStatuses}

\* while (true) MQTT_ProcessLoop(...): one packet is received and handed to
\* prvEventCallback.  A PUBACK answers a publish that was sent.  The callback
\* runs to completion on the MQTT task, whose priority is above the other two.
ReceivePacket(pkt) ==
    /\ pcM = "loop"
    /\ pkt.type = "PUBACK" => inflight > 0
    /\ inflight' = IF pkt.type = "PUBACK" THEN inflight - 1 ELSE inflight
    /\ prvEventCallback(pkt)
    /\ LoopAgain
    /\ UNCHANGED actuatorHandle
    /\ UNCHANGED <<pcA, lockLine, pcP, publishNotify, docDesired>>
    /\ UNCHANGED <<deltaHist, nTaken, nDone, published>>
    /\ UNCHANGED netVars
    /\ UNCHANGED tokVars

MQTT_ProcessLoop == \E pkt \in Packets : ReceivePacket(pkt)

\* The same delivery of a delta, with the handler's call recorded; used to
\* observe the MQTT task on its own.
DeltaObserved(m) ==
    /\ pcM = "loop"
    /\ prvEventCallback(DeltaPacket(m))
    /\ RecordDelta(m)
    /\ LoopAgain
    /\ UNCHANGED actuatorHandle
    /\ UNCHANGED <<pcA, lockLine, pcP, publishNotify, docDesired, inflight>>
    /\ UNCHANGED <<nTaken, nDone, published>>
    /\ UNCHANGED netVars
    /\ UNCHANGED tokVars

\* ------------------------------------------------------------ runActuatorTask
\* gpio_set_level(M5STICKC_LOCK_GPIO, isOpenRequest)
eChangeLockState(isOpenRequest) == lockLine' = isOpenRequest

\* Mutant: the publish task's handle is still NULL when the actuator reads it.
xPublishTaskNull == "NULL"

\* xPublishTask, the handle eControllerRun passes to the actuator task.
xPublishTask == "publish"

\* Mutant: ulTaskNotifyTake with no block time returns without a wake.
ActuatorTakeNoWait ==
    /\ pcA = "take"
    /\ actuatorNotify' = 0
    /\ pcA' = "assert"
    /\ nTaken' = nTaken + 1
    /\ UNCHANGED <<lockLine, mqttVars, pubVars, deltaHist, nWake, nDone,
                   published>>
    /\ UNCHANGED netVars
    /\ UNCHANGED tokVars

\* ulTaskNotifyTake(pdTRUE, portMAX_DELAY): blocks while the value is 0 and
\* clears it on exit.
ActuatorTake ==
    /\ pcA = "take"
    /\ actuatorNotify > 0
    /\ actuatorNotify' = 0
    /\ pcA' = "assert"
    /\ nTaken' = nTaken + 1
    /\ UNCHANGED <<lockLine, mqttVars, pubVars, deltaHist, nWake, nDone,
                   published>>
    /\ UNCHANGED netVars
    /\ UNCHANGED tokVars

\* eChangeLockState(1U); STATUS_LED_ON(); then vTaskDelay starts.
ActuatorAssert ==
    /\ pcA = "assert"
    /\ eChangeLockState(1)
    /\ pcA' = "dwell"
    /\ UNCHANGED <<actuatorNotify, mqttVars, pubVars, deltaHist, taskHist>>
    /\ UNCHANGED netVars
    /\ UNCHANGED tokVars

\* Mutant: the lock line is not de-asserted after the dwell.
ActuatorReleaseNoClose ==
    /\ pcA = "dwell"
    /\ pcA' = "notify"
    /\ UNCHANGED <<lockLine, actuatorNotify, mqttVars, pubVars, deltaHist,
                   taskHist>>
    /\ UNCHANGED netVars
    /\ UNCHANGED tokVars

\* vTaskDelay(5000 ms) is over; eChangeLockState(0U); STATUS_LED_OFF().
ActuatorRelease ==
    /\ pcA = "dwell"
    /\ eChangeLockState(0)
    /\ pcA' = "notify"
    /\ UNCHANGED <<actuatorNotify, mqttVars, pubVars, deltaHist, taskHist>>
    /\ UNCHANGED netVars
    /\ UNCHANGED tokVars

\* if (*pHandle) xTaskNotifyGive(*pHandle); and back to the top of the loop.
ActuatorNotify ==
    /\ pcA = "notify"
    /\ pcA' = "take"
    /\ IF xPublishTask # "NULL"
       THEN publishNotify' = publishNotify + 1 /\ nDone' = nDone + 1
       ELSE UNCHANGED <<publishNotify, nDone>>
    /\ UNCHANGED <<actuatorNotify, lockLine, mqttVars, deltaHist>>
    /\ UNCHANGED <<pcP, xPubAckWaitLock, docDesired, inflight>>
    /\ UNCHANGED <<nWake, nTaken, published>>
    /\ UNCHANGED netVars
    /\ UNCHANGED tokVars

runActuatorTask ==
    ActuatorTake \/ ActuatorAssert \/ ActuatorRelease \/ ActuatorNotify

\* ----------------------------------------------------- publishCurrentStateTask
\* The documents snprintf serialises (the client token is left out).
ReportedDoc(reported) ==
    [kind |-> "reported", desired |-> -1, reported |-> reported]
DesiredDoc(desired, reported) ==
    [kind |-> "desired", desired |-> desired, reported |-> reported]

\* PublishToTopic(doc): it passes or fails; a publish that was sent is answered
\* by a PUBACK later on, if at all.
PublishToTopic(doc) ==
    \E ok \in BOOLEAN :
        /\ published' = Append(published, doc)
        /\ inflight' = IF ok THEN inflight + 1 ELSE inflight

\* xSemaphoreTake(xPubAckWaitLock, 5000 ms): takes the semaphore if it is
\* given within the timeout, and gives up otherwise.
xSemaphoreTake ==
    xPubAckWaitLock' = IF xPubAckWaitLock = "full" THEN "empty"
                       ELSE xPubAckWaitLock

\* xPubAckWaitLock = xSemaphoreCreateBinary();
PublishCreate ==
    /\ pcP = "create"
    /\ xPubAckWaitLock' = "empty"
    /\ pcP' = "take"
    /\ UNCHANGED <<publishNotify, docDesired, inflight>>
    /\ UNCHANGED <<mqttVars, actVars, deltaHist, taskHist>>
    /\ UNCHANGED netVars
    /\ UNCHANGED tokVars

\* Mutant: the publish task does not block for its wake.
PublishWakeNoWait ==
    /\ pcP = "take"
    /\ publishNotify' = 0
    /\ ulCurrentLockState' = LOCK_STATE_OPEN
    /\ pcP' = "report"
    /\ UNCHANGED <<xPubAckWaitLock, docDesired, inflight>>
    /\ UNCHANGED <<pcM, actuatorHandle, ulCurrentVersion, stateChanged,
                   xUpdateDeltaReturn>>
    /\ UNCHANGED <<actVars, deltaHist, taskHist>>
    /\ UNCHANGED netVars
    /\ UNCHANGED tokVars

\* Mutant: the publish cycle acts on the pending flag and clears it.
PublishWakeClearsPending ==
    /\ pcP = "take"
    /\ publishNotify > 0
    /\ publishNotify' = 0
    /\ ulCurrentLockState' = LOCK_STATE_OPEN
    /\ stateChanged' = FALSE
    /\ pcP' = "report"
    /\ UNCHANGED <<xPubAckWaitLock, docDesired, inflight>>
    /\ UNCHANGED <<pcM, actuatorHandle, ulCurrentVersion, xUpdateDeltaReturn>>
    /\ UNCHANGED <<actVars, deltaHist, taskHist>>
    /\ UNCHANGED netVars
    /\ UNCHANGED tokVars

\* ulTaskNotifyTake(pdTRUE, portMAX_DELAY) returns; ulClientToken = ...;
\* ulCurrentLockState = LOCK_STATE_OPEN.
PublishWake ==
    /\ pcP = "take"
    /\ publishNotify > 0
    /\ publishNotify' = 0
    /\ ulCurrentLockState' = LOCK_STATE_OPEN
    /\ pcP' = "report"
    /\ UNCHANGED <<xPubAckWaitLock, docDesired, inflight>>
    /\ UNCHANGED <<pcM, actuatorHandle, ulCurrentVersion, stateChanged,
                   xUpdateDeltaReturn>>
    /\ UNCHANGED <<actVars, deltaHist, taskHist>>
    /\ UNCHANGED netVars
    /\ UNCHANGED tokVars

\* The value snprintf is handed for (int) ulCurrentLockState after the
\* assignment ulCurrentLockState = assigned.  The variable is a plain static
\* that the delta handler writes from the MQTT task with no lock around it, so
\* the argument is either the value just assigned (kept in a register) or the
\* value the variable holds when it is read again.
LockStateRead(assigned) == {assigned, ulCurrentLockState}

\* snprintf(SHADOW_REPORTED_JSON, ulCurrentLockState, ...); PublishToTopic.
PublishReported ==
    /\ pcP = "report"
    /\ \E v \in LockStateRead(LOCK_STATE_OPEN) : PublishToTopic(ReportedDoc(v))
    /\ pcP' = "ack1"
    /\ UNCHANGED <<publishNotify, xPubAckWaitLock, docDesired>>
    /\ UNCHANGED <<mqttVars, actVars, deltaHist, nWake, nTaken, nDone>>
    /\ UNCHANGED netVars
    /\ UNCHANGED tokVars

\* Mutant: an acknowledgment timeout publishes the document again.
PublishAck1Retry ==
    /\ pcP = "ack1"
    /\ xSemaphoreTake
    /\ pcP' = IF xPubAckWaitLock = "full" THEN "dwell" ELSE "report"
    /\ UNCHANGED <<publishNotify, docDesired, inflight>>
    /\ UNCHANGED <<mqttVars, actVars, deltaHist, taskHist>>
    /\ UNCHANGED netVars
    /\ UNCHANGED tokVars

\* xSemaphoreTake after the first publish; vTaskDelay(5000 ms) starts.
PublishAck1 ==
    /\ pcP = "ack1"
    /\ xSemaphoreTake
    /\ pcP' = "dwell"
    /\ UNCHANGED <<publishNotify, docDesired, inflight>>
    /\ UNCHANGED <<mqttVars, actVars, deltaHist, taskHist>>
    /\ UNCHANGED netVars
    /\ UNCHANGED tokVars

\* vTaskDelay is over; ulClientToken = ...; ulCurrentLockState =
\* LOCK_STATE_CLOSE.
PublishClose ==
    /\ pcP = "dwell"
    /\ ulCurrentLockState' = LOCK_STATE_CLOSE
    /\ pcP' = "serialize"
    /\ UNCHANGED <<publishNotify, xPubAckWaitLock, docDesired, inflight>>
    /\ UNCHANGED <<pcM, actuatorHandle, ulCurrentVersion, stateChanged,
                   xUpdateDeltaReturn>>
    /\ UNCHANGED <<actVars, deltaHist, taskHist>>
    /\ UNCHANGED netVars
    /\ UNCHANGED tokVars

\* snprintf(SHADOW_DESIRED_JSON, ...): the first of its two reads of
\* ulCurrentLockState.
PublishSerialize ==
    /\ pcP = "serialize"
    /\ docDesired' \in LockStateRead(LOCK_STATE_CLOSE)
    /\ pcP' = "final"
    /\ UNCHANGED <<publishNotify, xPubAckWaitLock, inflight>>
    /\ UNCHANGED <<mqttVars, actVars, deltaHist, taskHist>>
    /\ UNCHANGED netVars
    /\ UNCHANGED tokVars

\* The second read of ulCurrentLockState; PublishToTopic.
PublishDesired ==
    /\ pcP = "final"
    /\ \E v \in LockStateRead(LOCK_STATE_CLOSE) :
          PublishToTopic(DesiredDoc(docDesired, v))
    /\ docDesired' = 0
    /\ pcP' = "ack2"
    /\ UNCHANGED <<publishNotify, xPubAckWaitLock>>
    /\ UNCHANGED <<mqttVars, actVars, deltaHist, nWake, nTaken, nDone>>
    /\ UNCHANGED netVars
    /\ UNCHANGED tokVars

\* Mutant: the second acknowledgment wait has no timeout (portMAX_DELAY).
PublishAck2Blocking ==
    /\ pcP = "ack2"
    /\ xPubAckWaitLock = "full"
    /\ xSemaphoreTake
    /\ pcP' = "take"
    /\ published' = <<>>
    /\ UNCHANGED <<publishNotify, docDesired, inflight>>
    /\ UNCHANGED <<mqttVars, actVars, deltaHist, nWake, nTaken, nDone>>
    /\ UNCHANGED netVars
    /\ UNCHANGED tokVars

\* xSemaphoreTake after the second publish; back to the top of the loop,
\* which ends the cycle.
PublishAck2 ==
    /\ pcP = "ack2"
    /\ xSemaphoreTake
    /\ pcP' = "take"
    /\ published' = <<>>
    /\ UNCHANGED <<publishNotify, docDesired, inflight>>
    /\ UNCHANGED <<mqttVars, actVars, deltaHist, nWake, nTaken, nDone>>
    /\ UNCHANGED netVars
    /\ UNCHANGED tokVars

publishCurrentStateTask ==
    \/ PublishCreate
    \/ PublishWake
    \/ PublishReported
    \/ PublishAck1
    \/ PublishClose
    \/ PublishSerialize
    \/ PublishDesired
    \/ PublishAck2

\* ------------------------------------------------- app_network.c: the manager
\* A network mask (uint32_t of AWSIOT_NETWORK_TYPE_* bits) is the set of the
\* types whose bit is set; demoConnectedNetwork and the callback's `network`
\* hold one type, or AWSIOT_NETWORK_TYPE_NONE.
AWSIOT_NETWORK_TYPE_NONE == "NONE"
AWSIOT_NETWORK_TYPE_WIFI == "WIFI"
AWSIOT_NETWORK_TYPE_BLE == "BLE"
NetworkTypes == {AWSIOT_NETWORK_TYPE_WIFI, AWSIOT_NETWORK_TYPE_BLE}
NetworkStates ==
    {"eNetworkStateEnabled", "eNetworkStateDisabled", "eNetworkStateUnknown"}

\* configENABLED_NETWORKS of the build, and the appMqttContext_t handed to
\* network_initialize: its networkTypes and whether each callback is set.
NetCfgs ==
    [configENABLED_NETWORKS : SUBSET NetworkTypes \ {{}},
     networkTypes : SUBSET NetworkTypes,
     networkConnectedCallback : BOOLEAN,
     networkDisconnectedCallback : BOOLEAN]

\* The context subscribeUpdateTask passes: Wi-Fi only, both callbacks NULL.
appMqttContext ==
    [configENABLED_NETWORKS |-> {AWSIOT_NETWORK_TYPE_WIFI},
     networkTypes |-> {AWSIOT_NETWORK_TYPE_WIFI},
     networkConnectedCallback |-> FALSE,
     networkDisconnectedCallback |-> FALSE]

\* _getConnectedNetworkForDemo: only Wi-Fi is looked for in the mask.
getConnectedNetworkForDemo(connected) ==
    IF AWSIOT_NETWORK_TYPE_WIFI \in (connected \cap netCfg.networkTypes)
    THEN AWSIOT_NETWORK_TYPE_WIFI
    ELSE AWSIOT_NETWORK_TYPE_NONE

\* IotSemaphore_Post on the semaphore created with maximum 1; once
\* network_initialize has destroyed it a post has nothing to count on.
IotSemaphore_Post(sem) ==
    IF sem.state = "created" THEN [sem EXCEPT !.count = 1] ELSE sem

\* What _onNetworkStateChangeCallback calls, in the order it calls it.
CallPost == [op |-> "IotSemaphore_Post", mask |-> {}]
CallDisable(mask) == [op |-> "DisableNetwork", mask |-> mask]
CallEnable(mask) == [op |-> "EnableNetwork", mask |-> mask]
\* networkConnectedCallback(true, thing, GetConnectionParams(n),
\* GetCredentials(n), GetNetworkInterface(n))
CallConnected(n) == [op |-> "networkConnectedCallback", mask |-> {n}]
\* networkDisconnectedCallback(GetNetworkInterface(n))
CallDisconnected(n) == [op |-> "networkDisconnectedCallback", mask |-> {n}]
If(cond, calls) == IF cond THEN calls ELSE <<>>

\* Mutant: every configured network is taken, the selected one included.
OtherNetworksAll(selected) == netCfg.configENABLED_NETWORKS

\* disconnectedNetworks = configENABLED_NETWORKS & (~demoConnectedNetwork)
OtherNetworks(selected) == netCfg.configENABLED_NETWORKS \ {selected}

\* Mutant: a connected event is taken even while a network is active.
IsFirstConnectionAlways(state, active) == state = "eNetworkStateEnabled"

\* (state == eNetworkStateEnabled) && (demoConnectedNetwork == NONE)
IsFirstConnection(state, active) ==
    state = "eNetworkStateEnabled" /\ active = AWSIOT_NETWORK_TYPE_NONE

\* Mutant: only eNetworkStateDisabled counts as a disconnect.
IsActiveDisconnectDisabledOnly(network, state, active) ==
    state = "eNetworkStateDisabled" /\ active = network

\* ((state == Disabled) || (state == Unknown)) && (demoConnectedNetwork ==
\* network)
IsActiveDisconnect(network, state, active) ==
    /\ state \in {"eNetworkStateDisabled", "eNetworkStateUnknown"}
    /\ active = network

NetEvent(network, state, post, calls) ==
    [network |-> network, state |-> state, pre |-> demoConnectedNetwork,
     post |-> post, calls |-> calls]
NoNetEvent ==
    [network |-> AWSIOT_NETWORK_TYPE_NONE, state |-> "none",
     pre |-> AWSIOT_NETWORK_TYPE_NONE, post |-> AWSIOT_NETWORK_TYPE_NONE,
     calls |-> <<>>]

\* _onNetworkStateChangeCallback(network, state, pContext), run while the
\* manager reports `connected` as the connected networks.
\* AwsIotNetworkManager_DisableNetwork takes the networks down;
\* AwsIotNetworkManager_EnableNetwork brings them up, and each may or may not
\* be connected by the time it returns.
onNetworkStateChangeCallback(network, state, connected) ==
    IF IsFirstConnection(state, demoConnectedNetwork)
    THEN LET others == OtherNetworks(network)
         IN /\ demoConnectedNetwork' = network
            /\ demoNetworkSemaphore' = IotSemaphore_Post(demoNetworkSemaphore)
            /\ mgrEnabled' = mgrEnabled \ others
            /\ mgrConnected' = connected \ others
            /\ netLast' = NetEvent(network, state, network,
                   <<CallPost>>
                   \o If(others # {}, <<CallDisable(others)>>)
                   \o If(netCfg.networkConnectedCallback,
                         <<CallConnected(network)>>))
    ELSE IF IsActiveDisconnect(network, state, demoConnectedNetwork)
    THEN LET others == OtherNetworks(demoConnectedNetwork)
         IN \E up \in SUBSET (others \ mgrEnabled) :
              LET now == getConnectedNetworkForDemo(connected \cup up)
              IN /\ demoConnectedNetwork' = now
                 /\ mgrEnabled' = mgrEnabled \cup others
                 /\ mgrConnected' = connected \cup up
                 /\ netLast' = NetEvent(network, state, now,
                        If(netCfg.networkDisconnectedCallback,
                           <<CallDisconnected(network)>>)
                        \o If(others # {}, <<CallEnable(others)>>)
                        \o If(now # AWSIOT_NETWORK_TYPE_NONE
                                /\ netCfg.networkConnectedCallback,
                              <<CallConnected(now)>>))
                 /\ UNCHANGED demoNetworkSemaphore
    ELSE /\ netLast' = NetEvent(network, state, demoConnectedNetwork, <<>>)
         /\ mgrConnected' = connected
         /\ UNCHANGED <<demoConnectedNetwork, demoNetworkSemaphore,
                        mgrEnabled>>

\* The network manager reports a state change of one of the subscribed
\* network types and dispatches it to the callback.  Only an enabled network
\* connects.
NetworkStateChange ==
    /\ subscribed
    /\ \E network \in netCfg.networkTypes, state \in NetworkStates :
         /\ state = "eNetworkStateEnabled" => network \in mgrEnabled
         /\ onNetworkStateChangeCallback(network, state,
               IF state = "eNetworkStateEnabled"
               THEN mgrConnected \cup {network}
               ELSE mgrConnected \ {network})
    /\ netPrev' = netLast
    /\ UNCHANGED <<netCfg, pcN, subscribed>>
    /\ UNCHANGED <<mqttVars, actVars, pubVars, deltaHist, taskHist>>
    /\ UNCHANGED tokVars

\* network_initialize up to the subscription: IotSdk_Init,
\* AwsIotNetworkManager_Init, IotSemaphore_Create(&demoNetworkSemaphore, 0, 1)
\* and AwsIotNetworkManager_SubscribeForStateChange; the first that fails
\* ends the initialisation (a semaphore already created is destroyed).
NetInitSubscribe ==
    /\ pcN = "start"
    /\ \E failed \in {"none", "sdk", "manager", "semaphore", "subscribe"} :
         /\ pcN' = IF failed = "none" THEN "enable" ELSE "failed"
         /\ subscribed' = (failed = "none")
         /\ demoNetworkSemaphore' =
              [state |-> CASE failed = "none" -> "created"
                           [] failed = "subscribe" -> "destroyed"
                           [] OTHER -> "none",
               count |-> 0]
    /\ UNCHANGED <<netCfg, demoConnectedNetwork, mgrEnabled, mgrConnected,
                   netLast, netPrev>>
    /\ UNCHANGED <<mqttVars, actVars, pubVars, deltaHist, taskHist>>
    /\ UNCHANGED tokVars

\* AwsIotNetworkManager_EnableNetwork(configENABLED_NETWORKS) enables some or
\* all of the networks and returns their mask; any result but exactly Wi-Fi
\* is a failure, after which the semaphore is destroyed.
NetInitEnable ==
    /\ pcN = "enable"
    /\ \E on \in SUBSET netCfg.configENABLED_NETWORKS : \E up \in SUBSET on :
         /\ mgrEnabled' = on
         /\ mgrConnected' = up
         /\ IF on = {AWSIOT_NETWORK_TYPE_WIFI}
            THEN pcN' = "recompute" /\ UNCHANGED demoNetworkSemaphore
            ELSE /\ pcN' = "failed"
                 /\ demoNetworkSemaphore' =
                      [demoNetworkSemaphore EXCEPT !.state = "destroyed"]
    /\ UNCHANGED <<netCfg, subscribed, demoConnectedNetwork, netLast, netPrev>>
    /\ UNCHANGED <<mqttVars, actVars, pubVars, deltaHist, taskHist>>
    /\ UNCHANGED tokVars

\* if (networkTypes != NONE) { demoConnectedNetwork =
\* _getConnectedNetworkForDemo(); if it is NONE, wait for a connection }
NetInitRecompute ==
    /\ pcN = "recompute"
    /\ IF netCfg.networkTypes = {}
       THEN pcN' = "done" /\ UNCHANGED demoConnectedNetwork
       ELSE LET now == getConnectedNetworkForDemo(mgrConnected)
            IN /\ demoConnectedNetwork' = now
               /\ pcN' = IF now = AWSIOT_NETWORK_TYPE_NONE THEN "wait"
                         ELSE "done"
    /\ UNCHANGED <<netCfg, subscribed, demoNetworkSemaphore, mgrEnabled,
                   mgrConnected, netLast, netPrev>>
    /\ UNCHANGED <<mqttVars, actVars, pubVars, deltaHist, taskHist>>
    /\ UNCHANGED tokVars

\* _waitForDemoNetworkConnection: IotSemaphore_Wait(&demoNetworkSemaphore)
NetInitWait ==
    /\ pcN = "wait"
    /\ demoNetworkSemaphore.count > 0
    /\ demoNetworkSemaphore' = [demoNetworkSemaphore EXCEPT !.count = 0]
    /\ pcN' = "woken"
    /\ UNCHANGED <<netCfg, subscribed, demoConnectedNetwork, mgrEnabled,
                   mgrConnected, netLast, netPrev>>
    /\ UNCHANGED <<mqttVars, actVars, pubVars, deltaHist, taskHist>>
    /\ UNCHANGED tokVars

\* ... return _getConnectedNetworkForDemo(), assigned to demoConnectedNetwork
NetInitWoken ==
    /\ pcN = "woken"
    /\ demoConnectedNetwork' = getConnectedNetworkForDemo(mgrConnected)
    /\ pcN' = "done"
    /\ UNCHANGED <<netCfg, subscribed, demoNetworkSemaphore, mgrEnabled,
                   mgrConnected, netLast, netPrev>>
    /\ UNCHANGED <<mqttVars, actVars, pubVars, deltaHist, taskHist>>
    /\ UNCHANGED tokVars

\* return status; subscribeUpdateTask goes on to RunDeviceShadowClient on
\* EXIT_SUCCESS and returns otherwise.
NetInitReturn ==
    /\ pcN \in {"done", "failed"}
    /\ pcM = "netinit"
    /\ pcM' = IF pcN = "done" THEN "establish" ELSE "exit"
    /\ pcN' = "returned"
    /\ UNCHANGED <<actuatorHandle, ulCurrentVersion, ulCurrentLockState,
                   stateChanged, xUpdateDeltaReturn>>
    /\ UNCHANGED <<netCfg, subscribed, demoConnectedNetwork,
                   demoNetworkSemaphore, mgrEnabled, mgrConnected, netLast,
                   netPrev>>
    /\ UNCHANGED <<actVars, pubVars, deltaHist, taskHist>>
    /\ UNCHANGED tokVars

network_initialize ==
    \/ NetInitSubscribe
    \/ NetInitEnable
    \/ NetInitRecompute
    \/ NetInitWait
    \/ NetInitWoken
    \/ NetInitReturn

\* The connectivity state before network_initialize is called with cfg.
NetStart(cfg) ==
    /\ netCfg = cfg
    /\ pcN = "start"
    /\ subscribed = FALSE
    /\ demoConnectedNetwork = AWSIOT_NETWORK_TYPE_NONE
    /\ demoNetworkSemaphore = [state |-> "none", count |-> 0]
    /\ mgrEnabled = {}
    /\ mgrConnected = {}
    /\ netLast = NoNetEvent
    /\ netPrev = NoNetEvent

\* --------------------------------------- the client token and the documents
\* Half the width of a limb of the tick counter.
MaxTickLow == 2

\* TickType_t is 32 bits wide; a tick is kept as two 16-bit limbs, hi * 2^16 +
\* lo, because it does not fit the checker's integers.
TickLimb == 256 * 256

\* The ticks examined: around 0, around 1,000,000 (= 15 * 2^16 + 16960), around
\* the limb boundaries, around 2^31 and up to the last tick before the wrap.
TickHighs == {0, 15, 32767, 32768, TickLimb - 1}
TickLows ==
    (0 .. MaxTickLow)
      \cup ((16960 - MaxTickLow) .. (16960 + MaxTickLow))
      \cup ((TickLimb - 1 - MaxTickLow) .. (TickLimb - 1))
Ticks == [hi : TickHighs, lo : TickLows]
ZeroTick == [hi |-> 0, lo |-> 0]

\* The tick interrupt: the counter advances by one and wraps at 2^32.
xTaskIncrementTick(t) ==
    IF t.lo = TickLimb - 1
    THEN [hi |-> (t.hi + 1) % TickLimb, lo |-> 0]
    ELSE [hi |-> t.hi, lo |-> t.lo + 1]

\* t % m for a 32-bit tick, limb by limb: 2^16 = 256 * 256 and every
\* intermediate product stays below 2^31 for m up to 2^23.
TickModulo(t, m) == (((((t.hi * 256) % m) * 256) % m) + t.lo) % m

\* ulClientToken = (xTaskGetTickCount() % 1000000)
ClientToken(t) == TickModulo(t, 1000000)

\* The format strings, cut at their conversion specifications.
SHADOW_DESIRED_JSON ==
    << "{\"state\":{\"desired\":{\"lockState\":", "%01d",
       "},\"reported\":{\"lockState\":", "%01d",
       "}},\"clientToken\":\"", "%06lu", "\"}" >>

SHADOW_REPORTED_JSON ==
    << "{\"state\":{\"reported\":{\"lockState\":", "%01d",
       "}},\"clientToken\":\"", "%06lu", "\"}" >>

Conversions == {"%01d", "%06lu"}

\* The string literal a format is in the source, and sizeof of it (the
\* terminating character included).
RECURSIVE FormatText(_)
FormatText(fmt) ==
    IF fmt = <<>> THEN "" ELSE Head(fmt) \o FormatText(Tail(fmt))

sizeof(fmt) == Len(FormatText(fmt)) + 1

\* Mutant: the length the comment above the macro gives ("minus 3").
SHADOW_DESIRED_JSON_LENGTH_Minus3 == sizeof(SHADOW_DESIRED_JSON) - 3

SHADOW_DESIRED_JSON_LENGTH == sizeof(SHADOW_DESIRED_JSON) - 6

SHADOW_REPORTED_JSON_LENGTH == sizeof(SHADOW_REPORTED_JSON) - 3

\* printf's decimal conversion of a non-negative number, and the zero flag
\* with a minimum field width: shorter output is padded, longer is kept.
DigitChar == <<"0", "1", "2", "3", "4", "5", "6", "7", "8", "9">>

RECURSIVE Decimal(_)
Decimal(n) ==
    IF n < 10 THEN DigitChar[n + 1]
    ELSE Decimal(n \div 10) \o DigitChar[(n % 10) + 1]

RECURSIVE ZeroPad(_, _)
ZeroPad(s, width) == IF Len(s) >= width THEN s ELSE ZeroPad("0" \o s, width)

Convert(conversion, arg) ==
    IF conversion = "%01d" THEN ZeroPad(Decimal(arg), 1)
    ELSE ZeroPad(Decimal(arg), 6)

RECURSIVE Format(_, _)
Format(fmt, args) ==
    IF fmt = <<>> THEN ""
    ELSE IF Head(fmt) \in Conversions
         THEN Convert(Head(fmt), Head(args)) \o Format(Tail(fmt), Tail(args))
         ELSE Head(fmt) \o Format(Tail(fmt), args)

\* snprintf(buffer, size, fmt, ...): the whole output, and how many of its
\* characters the buffer receives (at most size - 1, then the terminator).
snprintf(size, fmt, args) ==
    LET out == Format(fmt, args)
    IN [text |-> out,
        written |-> IF Len(out) <= size - 1 THEN Len(out) ELSE size - 1]

\* The values (int) ulCurrentLockState is printed with: the two lock states,
\* and a value out of range.
LockArgs == {LOCK_STATE_CLOSE, LOCK_STATE_OPEN, 10}

\* memset(pcUpdateDocument, 0x00, ...)
NoDocument == [kind |-> "none", locks |-> <<>>, token |-> 0, length |-> 0,
               doc |-> [text |-> "", written |-> 0]]

\* ulClientToken = ...; snprintf(SHADOW_REPORTED_JSON_LENGTH + 1,
\* SHADOW_REPORTED_JSON, ...); the publish sends SHADOW_REPORTED_JSON_LENGTH
\* bytes of the buffer.
SerializeReported ==
    \E lock \in LockArgs :
       /\ ulClientToken' = ClientToken(xTickCount)
       /\ pcUpdateDocument' =
            [kind |-> "reported", locks |-> <<lock>>,
             token |-> ulClientToken',
             length |-> SHADOW_REPORTED_JSON_LENGTH,
             doc |-> snprintf(SHADOW_REPORTED_JSON_LENGTH + 1,
                              SHADOW_REPORTED_JSON, <<lock, ulClientToken'>>)]
       /\ UNCHANGED xTickCount
       /\ UNCHANGED <<mqttVars, actVars, pubVars, deltaHist, taskHist, netVars>>

\* The same for SHADOW_DESIRED_JSON, whose two lock states are two reads.
SerializeDesired ==
    \E desired \in LockArgs, reported \in LockArgs :
       /\ ulClientToken' = ClientToken(xTickCount)
       /\ pcUpdateDocument' =
            [kind |-> "desired", locks |-> <<desired, reported>>,
             token |-> ulClientToken',
             length |-> SHADOW_DESIRED_JSON_LENGTH,
             doc |-> snprintf(SHADOW_DESIRED_JSON_LENGTH + 1,
                              SHADOW_DESIRED_JSON,
                              <<desired, reported, ulClientToken'>>)]
       /\ UNCHANGED xTickCount
       /\ UNCHANGED <<mqttVars, actVars, pubVars, deltaHist, taskHist, netVars>>

\* A tick passes (the vTaskDelay and the waits between the two documents).
TickAdvance ==
    /\ xTaskIncrementTick(xTickCount) \in Ticks
    /\ xTickCount' = xTaskIncrementTick(xTickCount)
    /\ UNCHANGED <<ulClientToken, pcUpdateDocument>>
    /\ UNCHANGED <<mqttVars, actVars, pubVars, deltaHist, taskHist, netVars>>

\* The token and the buffer before the first cycle, at tick t.
TokenStart(t) ==
    /\ xTickCount = t
    /\ ulClientToken = 0
    /\ pcUpdateDocument = NoDocument

\* -------------------------------------------------------------- the system
\* eControllerRun has created the three tasks; none of them has run yet.
ShadowInit ==
    /\ pcM = "netinit"
    /\ actuatorHandle = "NULL"
    /\ ulCurrentVersion = 0
    /\ ulCurrentLockState = 0
    /\ stateChanged = FALSE
    /\ xUpdateDeltaReturn = "pdPASS"
    /\ pcA = "take"
    /\ actuatorNotify = 0
    /\ lockLine = 0
    /\ pcP = "create"
    /\ publishNotify = 0
    /\ xPubAckWaitLock = "NULL"
    /\ docDesired = 0
    /\ inflight = 0
    /\ lastMsg = NoMsg
    /\ pre = [version |-> 0, lock |-> 0, changed |-> FALSE, ret |-> "pdPASS",
              notify |-> 0]
    /\ firstSeen = [v \in 1 .. MaxVersion |-> -1]
    /\ illFormed = FALSE
    /\ nWake = 0
    /\ nTaken = 0
    /\ nDone = 0
    /\ published = <<>>

Init == ShadowInit /\ NetStart(appMqttContext) /\ TokenStart(ZeroTick)

subscribeUpdateTask ==
    \/ NetworkInitialize
    \/ EstablishMqttSession
    \/ SubscribeToTopic
    \/ MQTT_ProcessLoop

Next ==
    \/ subscribeUpdateTask
    \/ runActuatorTask
    \/ publishCurrentStateTask

Spec == Init /\ [][Next]_vars

\* The scheduler runs a ready task: the actuator and the publish task have the
\* same priority and are time-sliced, the MQTT task above them blocks in
\* MQTT_ProcessLoop, and every vTaskDelay and semaphore timeout expires.
FairSpec ==
    Spec /\ WF_vars(runActuatorTask) /\ WF_vars(publishCurrentStateTask)

\* The MQTT task alone: the other tasks stay blocked in ulTaskNotifyTake.
DeltaNext ==
    \/ NetworkInitialize
    \/ EstablishMqttSession
    \/ SubscribeToTopic
    \/ \E m \in Msgs : DeltaObserved(m)

SpecDelta == Init /\ [][DeltaNext]_vars

\* The connectivity manager alone, for every configuration: the caller runs
\* network_initialize while the network manager reports state changes.
NetInit ==
    ShadowInit /\ TokenStart(ZeroTick) /\ \E cfg \in NetCfgs : NetStart(cfg)

NetNext == network_initialize \/ NetworkStateChange

SpecNet == NetInit /\ [][NetNext]_vars

\* The serialization of the two documents alone, at the ticks examined.
TokenInit ==
    ShadowInit /\ NetStart(appMqttContext) /\ \E t \in Ticks : TokenStart(t)

TokenNext == TickAdvance \/ SerializeReported \/ SerializeDesired

SpecToken == TokenInit /\ [][TokenNext]_vars

\* One opening of the box from LockState = Closed and ShadowVersion = 0: a
\* delta {version v, lockState 1} with v = 1 (or any larger version the
\* cloud starts at) arrives once and no delta arrives after it.
\* Before it the MQTT task may have received payloads without a readable
\* version, which leave LockState and ShadowVersion as they are; at any time it
\* receives the PUBACKs of the publishes and packets it ignores.
OpenDelta(v) == [valid |-> TRUE, version |-> IntTok(v),
                 lockState |-> IntTok(LOCK_STATE_OPEN)]

OpenDeltaDelivered ==
    /\ ulCurrentVersion = 0
    /\ \E v \in 1 .. MaxVersion : ReceivePacket(DeltaPacket(OpenDelta(v)))

UnreadableDeltaDelivered ==
    /\ ulCurrentVersion = 0
    /\ \E m \in {n \in Msgs : ~n.valid \/ n.version.kind = "absent"} :
          ReceivePacket(DeltaPacket(m))

AckOrIgnoredPacketReceived ==
    \E pkt \in {PubAck, OtherPublish, OtherPacket} : ReceivePacket(pkt)

OpenOnceNext ==
    \/ NetworkInitialize
    \/ EstablishMqttSession
    \/ SubscribeToTopic
    \/ UnreadableDeltaDelivered
    \/ OpenDeltaDelivered
    \/ AckOrIgnoredPacketReceived
    \/ runActuatorTask
    \/ publishCurrentStateTask

SpecOpenOnce ==
    /\ Init /\ [][OpenOnceNext]_vars
    /\ WF_vars(runActuatorTask) /\ WF_vars(publishCurrentStateTask)

\* The three tasks when every delta is one the cloud can send: valid JSON, a
\* version from 1 up and a lockState of 0 or 1, in any order (a repeated or
\* older version included).
CloudDeltas == {m \in Msgs : WellFormed(m) /\ m.version.n > 0}

CloudDeltaDelivered == \E m \in CloudDeltas : ReceivePacket(DeltaPacket(m))

WellFormedNext ==
    \/ NetworkInitialize
    \/ EstablishMqttSession
    \/ SubscribeToTopic
    \/ CloudDeltaDelivered
    \/ AckOrIgnoredPacketReceived
    \/ runActuatorTask
    \/ publishCurrentStateTask

SpecWellFormed == Init /\ [][WellFormedNext]_vars

\* ======================================================================
\* Properties of prvUpdateDeltaHandler, checked under SpecDelta.  They are
\* stated on the payload of the latest call (lastMsg), the state just before
\* it (pre) and the state after it, with the fields decoded as the code
\* decodes them.
\* ======================================================================
Handled == lastMsg # NoMsg
HasVersion(m) == m.valid /\ m.version.kind # "absent"
HasLockState(m) == m.lockState.kind # "absent"
VersionOf(m) == strtoul(m.version)
LockStateOf(m) == strtoul(m.lockState)
\* The latest delta carried a version above the one accepted before it.
LastIsNewer == Handled /\ HasVersion(lastMsg) /\ VersionOf(lastMsg) > pre.version
\* The latest call left LockState and PendingStateChange alone and gave no wake.
LastLeftLockAlone ==
    /\ ulCurrentLockState = pre.lock
    /\ stateChanged = pre.changed
    /\ actuatorNotify = pre.notify

\* C1: a delta whose version is less than or equal to the last accepted
\* ShadowVersion leaves LockState unchanged, does not set PendingStateChange
\* and does not signal the actuator.
C1_StaleDeltaIgnored ==
    (Handled /\ HasVersion(lastMsg) /\ VersionOf(lastMsg) <= pre.version)
    => LastLeftLockAlone

\* The lockState of the well-formed delta with the largest version above 0
\* seen so far, as it arrived first; Closed when there is none.
LargestSeenLockState ==
    LET seen == {v \in 1 .. MaxVersion : firstSeen[v] # -1}
    IN IF seen = {} THEN LOCK_STATE_CLOSE
       ELSE firstSeen[CHOOSE v \in seen : \A w \in seen : w <= v]

\* C2: after any sequence of well-formed deltas, with no publish cycle in
\* between, LockState is the lockState of the delta with the largest version
\* above 0 seen so far (at its first arrival), and Closed if there is none.
C2_LargestVersionWins ==
    ~illFormed => ulCurrentLockState = LargestSeenLockState

\* C3: the second of two deliveries of the same delta document leaves
\* LockState, ShadowVersion and PendingStateChange unchanged and does not
\* signal the actuator.
C3_DuplicateIsNoOp ==
    [][(pcM = "loop" /\ Handled /\ lastMsg' = lastMsg)
        => /\ ulCurrentLockState' = ulCurrentLockState
           /\ ulCurrentVersion' = ulCurrentVersion
           /\ stateChanged' = stateChanged
           /\ actuatorNotify' = actuatorNotify]_vars

\* C4: an accepted delta (version above ShadowVersion) whose lockState differs
\* from LockState sets LockState to the decoded value, sets
\* PendingStateChange, and signals the actuator exactly once if the new value
\* is Open and not at all otherwise.
C4_AcceptedChangeApplied ==
    (LastIsNewer /\ HasLockState(lastMsg) /\ LockStateOf(lastMsg) # pre.lock)
    => /\ ulCurrentLockState = LockStateOf(lastMsg)
       /\ stateChanged = TRUE
       /\ actuatorNotify = pre.notify
            + (IF LockStateOf(lastMsg) = LOCK_STATE_OPEN THEN 1 ELSE 0)

C4_Witness ==
    /\ LastIsNewer /\ HasLockState(lastMsg)
    /\ pre.lock = LOCK_STATE_CLOSE
    /\ LockStateOf(lastMsg) = LOCK_STATE_OPEN
    /\ ulCurrentLockState = LOCK_STATE_OPEN
    /\ actuatorNotify = pre.notify + 1

\* C5: a delta with a version above ShadowVersion and a lockState equal to
\* LockState sets ShadowVersion to its version and changes nothing else.
C5_SameStateOnlyBumpsVersion ==
    (LastIsNewer /\ HasLockState(lastMsg) /\ LockStateOf(lastMsg) = pre.lock)
    => /\ ulCurrentVersion = VersionOf(lastMsg)
       /\ LastLeftLockAlone
       /\ xUpdateDeltaReturn = pre.ret

C5_Witness ==
    /\ LastIsNewer /\ HasLockState(lastMsg)
    /\ LockStateOf(lastMsg) = pre.lock
    /\ pre.changed = FALSE /\ stateChanged = FALSE
    /\ ulCurrentVersion = VersionOf(lastMsg) /\ ulCurrentVersion > pre.version

\* The latest delta had a version above ShadowVersion and no lockState.
LastLacksLockState == LastIsNewer /\ ~HasLockState(lastMsg)

\* C6: a delta with a version above ShadowVersion and no extractable
\* lockState sets the failure flag, leaves LockState and PendingStateChange
\* unchanged, gives no wake and keeps ShadowVersion advanced, so that a later
\* delta with that same version and a valid lockState is rejected.
C6_MissingStateKeepsVersion ==
    [][/\ LastLacksLockState'
          => (/\ xUpdateDeltaReturn' = "pdFAIL"
              /\ LastLeftLockAlone'
              /\ ulCurrentVersion' = VersionOf(lastMsg'))
       /\ (/\ LastLacksLockState
           /\ WellFormed(lastMsg')
           /\ VersionOf(lastMsg') = VersionOf(lastMsg))
          => (/\ ulCurrentLockState' = ulCurrentLockState
              /\ ulCurrentVersion' = ulCurrentVersion
              /\ stateChanged' = stateChanged
              /\ actuatorNotify' = actuatorNotify)]_vars

\* The latest payload was not valid JSON, or had no version to extract.
LastUnreadable == Handled /\ ~HasVersion(lastMsg)

\* C7: a payload that is not valid JSON, or has no extractable version,
\* mutates none of LockState, ShadowVersion and PendingStateChange and gives no
\* wake; the next delta with a newer version and a lockState is accepted.
C7_UnreadableDeltaIgnored ==
    [][/\ LastUnreadable'
          => (LastLeftLockAlone' /\ ulCurrentVersion' = pre'.version)
       /\ (LastUnreadable /\ LastIsNewer' /\ HasLockState(lastMsg'))
          => (/\ ulCurrentVersion' = VersionOf(lastMsg')
              /\ ulCurrentLockState' = LockStateOf(lastMsg'))]_vars

C7_Witness ==
    /\ LastUnreadable
    /\ pre.version > 0 /\ pre.lock # LOCK_STATE_CLOSE
    /\ ulCurrentVersion = pre.version /\ ulCurrentLockState = pre.lock
    /\ xUpdateDeltaReturn = "pdFAIL"

\* ======================================================================
\* Properties of the three tasks together, checked under Spec (safety) and
\* FairSpec (liveness).
\* ======================================================================

\* C8: the actuator asserts the lock line only after consuming a wake, sends
\* exactly one completion per consumed wake, so completions never exceed the
\* wakes given, and the line is never asserted if no wake was given.
C8_ActuatorHandshake ==
    /\ nDone <= nTaken /\ nTaken <= nWake
    /\ nTaken - nDone = (IF pcA = "take" THEN 0 ELSE 1)
    /\ lockLine = 1 => nTaken > nDone
    /\ nWake = 0 => lockLine = 0

C8_Witness == nDone >= 1 /\ lockLine = 1 /\ nTaken = nDone + 1

\* C9: each actuation runs assert, dwell, de-assert, notify in this order; the
\* completion is only sent while the lock line is de-asserted; and under fair
\* scheduling an asserted lock line is eventually de-asserted.
C9_ActuationOrder ==
    /\ [][/\ pcA' # pcA =>
                <<pcA, pcA'>> \in {<<"take", "assert">>, <<"assert", "dwell">>,
                                   <<"dwell", "notify">>, <<"notify", "take">>}
          /\ lockLine' > lockLine => (pcA = "assert" /\ pcA' = "dwell")
          /\ lockLine' < lockLine => (pcA = "dwell" /\ pcA' = "notify")
          /\ (nDone' # nDone \/ publishNotify' > publishNotify) =>
                (pcA = "notify" /\ lockLine = 0 /\ lockLine' = 0)]_vars
    /\ [](lockLine = 1 <=> pcA = "dwell")
    /\ [](lockLine = 1 => <>(lockLine = 0))

C9_Witness == pcA = "notify" /\ lockLine = 0 /\ nTaken = nDone + 1

\* The kinds of the documents published so far in the cycle.
PublishedKinds == [i \in 1 .. Len(published) |-> published[i].kind]

\* What has been published at each position of the publish task.
CycleShape ==
    CASE pcP \in {"create", "take", "report"} -> PublishedKinds = <<>>
      [] pcP \in {"ack1", "dwell", "serialize", "final"} ->
            PublishedKinds = <<"reported">>
      [] pcP = "ack2" -> PublishedKinds = <<"reported", "desired">>

\* C10: each time it is woken the publish task publishes exactly two
\* documents, a reported-only one and then, after the acknowledgment wait and
\* the dwell, a desired+reported one, and then blocks again; it publishes
\* nothing while it is blocked waiting for a wake.
C10_TwoPhaseReport ==
    [][/\ CycleShape'
       /\ pcP' # pcP =>
             <<pcP, pcP'>> \in {<<"create", "take">>, <<"take", "report">>,
                                <<"report", "ack1">>, <<"ack1", "dwell">>,
                                <<"dwell", "serialize">>,
                                <<"serialize", "final">>, <<"final", "ack2">>,
                                <<"ack2", "take">>}
       /\ Len(published') > Len(published) => pcP \in {"report", "final"}
       /\ (pcP = "take" /\ pcP' # pcP) =>
             (publishNotify > 0 /\ publishNotify' = 0 /\ pcP' = "report")
       /\ (pcP = "ack2" /\ pcP' # pcP) =>
             (pcP' = "take" /\ PublishedKinds = <<"reported", "desired">>)]_vars

C10_Witness ==
    pcP = "take" /\ nDone >= 1 /\ publishNotify = 0 /\ published = <<>>

\* The documents of one kind published so far in the cycle.
PublishedOfKind(k) ==
    {published[i] : i \in {j \in 1 .. Len(published) : published[j].kind = k}}

\* C11: every reported-only document the publish task publishes carries
\* lockState = 1 (Open), whatever the delta handler does between the
\* assignment LockState = Open and the serialisation.
C11_ReportedIsOpen ==
    \A d \in PublishedOfKind("reported") : d.reported = LOCK_STATE_OPEN

\* C12: every desired+reported document the publish task publishes has its
\* desired and its reported lockState both equal to 0 (Closed), whatever the
\* delta handler does between the assignment LockState = Closed and the two
\* reads of the serialisation.
C12_DesiredIsClosed ==
    \A d \in PublishedOfKind("desired") :
        d.desired = LOCK_STATE_CLOSE /\ d.reported = LOCK_STATE_CLOSE

\* The publish task is inside a cycle: woken and not yet back at its wait.
InCycle == pcP \notin {"create", "take"}

\* The number of documents of one kind published so far in the cycle.
TimesPublished(k) ==
    Cardinality({i \in 1 .. Len(published) : published[i].kind = k})

\* C13: under fair scheduling a woken publish cycle completes and returns to
\* waiting for the next wake, whether or not a PUBACK arrives and whether
\* PublishToTopic passes or fails: a failed publish or a timed-out
\* acknowledgment wait moves on to the next step, publishes nothing a second
\* time and does not write LockState.
C13_CycleCompletes ==
    /\ InCycle ~> (pcP = "take")
    /\ [](TimesPublished("reported") <= 1 /\ TimesPublished("desired") <= 1)
    /\ [][/\ (pcP = "report" /\ pcP' # pcP) =>
               (pcP' = "ack1" /\ ulCurrentLockState' = ulCurrentLockState)
          /\ (pcP = "final" /\ pcP' # pcP) =>
               (pcP' = "ack2" /\ ulCurrentLockState' = ulCurrentLockState)
          /\ (pcP = "ack1" /\ pcP' # pcP) =>
               (/\ pcP' = "dwell" /\ published' = published
                /\ ulCurrentLockState' = ulCurrentLockState)
          /\ (pcP = "ack2" /\ pcP' # pcP) =>
               (/\ pcP' = "take" /\ inflight' = inflight
                /\ ulCurrentLockState' = ulCurrentLockState)]_vars

\* The first cycle is over, both of its publishes were sent and no PUBACK
\* arrived for either: both acknowledgment waits timed out.
C13_Witness ==
    /\ pcP = "take" /\ nDone = 1 /\ publishNotify = 0
    /\ inflight = 2 /\ xPubAckWaitLock = "empty"

\* C14: the publish task never issues a publish while an earlier publish of
\* its own is still unacknowledged.
C14_SinglePublishOutstanding ==
    [][Len(published') > Len(published) => inflight = 0]_vars

\* The desired+reported document with both fields Closed has been published.
ClosedDocPublished ==
    DesiredDoc(LOCK_STATE_CLOSE, LOCK_STATE_CLOSE) \in PublishedOfKind("desired")

\* C15: from LockState = Closed and ShadowVersion = 0, the delta {version 1,
\* lockState 1} (or one with a larger version) sets LockState = Open and
\* signals the actuator; if no further delta arrives then, under fair
\* scheduling, the actuator signals completion, after which the publish task
\* publishes a desired+reported Closed document and ends its cycle with
\* LockState = Closed.
C15_OpenThenClosed ==
    /\ [][(ulCurrentVersion = 0 /\ ulCurrentVersion' > 0) =>
             (/\ ulCurrentLockState = LOCK_STATE_CLOSE
              /\ ulCurrentLockState' = LOCK_STATE_OPEN
              /\ actuatorNotify' = actuatorNotify + 1
              /\ nWake' = 1)]_vars
    /\ (nWake = 1) ~> (nDone = 1)
    /\ (nDone = 1 /\ publishNotify = 1) ~>
          (/\ pcP = "ack2" /\ ClosedDocPublished
           /\ ulCurrentLockState = LOCK_STATE_CLOSE)
    /\ (nDone = 1) ~>
          [](/\ pcP = "take" /\ publishNotify = 0 /\ lockLine = 0
             /\ ulCurrentLockState = LOCK_STATE_CLOSE)

C15_Witness ==
    /\ ulCurrentVersion = 1 /\ nWake = 1 /\ nDone = 1
    /\ pcP = "ack2" /\ ClosedDocPublished
    /\ ulCurrentLockState = LOCK_STATE_CLOSE /\ lockLine = 0

\* C16: the publish cycle is triggered unconditionally as part of startup:
\* once the tasks are created the publish task runs its report sequence at
\* least once, even if no delta is ever received and the actuator is never
\* triggered.
C16_CycleRunsAtStartup == <>InCycle

\* C16 as amended: startup triggers no publish cycle.  The publish task
\* starts a cycle only after the actuator has sent a completion notification,
\* which needs a wake from the delta handler; until then it has published
\* nothing and LockState is only what the delta handler made it.
C16_CycleNeedsCompletion ==
    /\ nDone = 0 => (~InCycle /\ published = <<>>)
    /\ nWake = 0 => (nDone = 0 /\ publishNotify = 0)

\* All three tasks have started, no wake was ever given, and the publish
\* task is blocked at its ulTaskNotifyTake having published nothing.
C16_Witness ==
    /\ pcM = "loop" /\ pcA = "take" /\ pcP = "take"
    /\ nWake = 0 /\ nDone = 0 /\ publishNotify = 0 /\ published = <<>>
    /\ ulCurrentVersion > 0

\* ======================================================================
\* Properties of the connectivity manager, checked under SpecNet.  A step is
\* the handling of a state-change event when the caller of
\* network_initialize stays where it is; netLast' then describes the event.
\* ======================================================================
EventStep == pcN' = pcN /\ netVars' # netVars
Configured == netCfg.configENABLED_NETWORKS
IsConnectEvent(e) == e.state = "eNetworkStateEnabled"
IsDisconnectEvent(e) ==
    e.state \in {"eNetworkStateDisabled", "eNetworkStateUnknown"}
\* The calls of one kind an event's handling made.
CallsOf(e, op) == {i \in 1 .. Len(e.calls) : e.calls[i].op = op}
Called(e, call) == \E i \in 1 .. Len(e.calls) : e.calls[i] = call
\* The connected callback is registered, and it was invoked with network n.
ConnectedWith(e, n) ==
    netCfg.networkConnectedCallback => Called(e, CallConnected(n))

\* C17 as stated: with two configured networks A and B, (1) A's connected
\* event while no network is active makes A active and disables B, (2) A
\* then reporting Disabled or Unknown re-enables B, and (3) B's connected
\* event arriving next makes B active and invokes the connected callback with
\* B's interface, parameters and credentials.
C17_FailoverOnEvent ==
    [][\A A \in Configured : \A B \in Configured \ {A} :
        /\ (/\ EventStep /\ netLast'.network = A /\ IsConnectEvent(netLast')
            /\ demoConnectedNetwork = AWSIOT_NETWORK_TYPE_NONE)
           => (/\ demoConnectedNetwork' = A
               /\ B \notin mgrEnabled'
               /\ \E i \in CallsOf(netLast', "DisableNetwork") :
                     B \in netLast'.calls[i].mask)
        /\ (/\ EventStep /\ netLast'.network = A
            /\ IsDisconnectEvent(netLast') /\ demoConnectedNetwork = A)
           => (/\ B \in mgrEnabled'
               /\ \E i \in CallsOf(netLast', "EnableNetwork") :
                     B \in netLast'.calls[i].mask)
        /\ (/\ EventStep
            /\ netPrev.network = A /\ IsConnectEvent(netPrev)
            /\ netPrev.pre = AWSIOT_NETWORK_TYPE_NONE
            /\ netLast.network = A /\ IsDisconnectEvent(netLast)
            /\ netLast.pre = A
            /\ netLast'.network = B /\ IsConnectEvent(netLast'))
           => (/\ demoConnectedNetwork' = B
               /\ netLast'.pre = AWSIOT_NETWORK_TYPE_NONE
               /\ ConnectedWith(netLast', B))]_vars

\* C17 as amended: (1) and (2) as above, and (3) once B's connected event
\* has been handled B is the active network and the connected callback has
\* been invoked with B's interface, parameters and credentials, either by
\* that event or already by the recompute that ended A's disconnect.
C17_Failover ==
    [][\A A \in Configured : \A B \in Configured \ {A} :
        /\ (/\ EventStep /\ netLast'.network = A /\ IsConnectEvent(netLast')
            /\ demoConnectedNetwork = AWSIOT_NETWORK_TYPE_NONE)
           => (/\ demoConnectedNetwork' = A
               /\ B \notin mgrEnabled'
               /\ \E i \in CallsOf(netLast', "DisableNetwork") :
                     B \in netLast'.calls[i].mask)
        /\ (/\ EventStep /\ netLast'.network = A
            /\ IsDisconnectEvent(netLast') /\ demoConnectedNetwork = A)
           => (/\ B \in mgrEnabled'
               /\ \E i \in CallsOf(netLast', "EnableNetwork") :
                     B \in netLast'.calls[i].mask)
        /\ (/\ EventStep
            /\ netPrev.network = A /\ IsConnectEvent(netPrev)
            /\ netPrev.pre = AWSIOT_NETWORK_TYPE_NONE
            /\ netLast.network = A /\ IsDisconnectEvent(netLast)
            /\ netLast.pre = A
            /\ netLast'.network = B /\ IsConnectEvent(netLast'))
           => (/\ demoConnectedNetwork' = B
               /\ IF netLast'.pre = AWSIOT_NETWORK_TYPE_NONE
                  THEN ConnectedWith(netLast', B)
                  ELSE netLast.post = B /\ ConnectedWith(netLast, B))]_vars

\* Wi-Fi was active and was lost, and Bluetooth's connected event then made
\* Bluetooth the active network and called the connected callback with it.
C17_Witness ==
    /\ netCfg.networkConnectedCallback
    /\ netPrev.network = AWSIOT_NETWORK_TYPE_WIFI /\ IsDisconnectEvent(netPrev)
    /\ netPrev.pre = AWSIOT_NETWORK_TYPE_WIFI
    /\ Called(netPrev, CallEnable({AWSIOT_NETWORK_TYPE_BLE}))
    /\ netLast.network = AWSIOT_NETWORK_TYPE_BLE /\ IsConnectEvent(netLast)
    /\ Called(netLast, CallConnected(AWSIOT_NETWORK_TYPE_BLE))
    /\ demoConnectedNetwork = AWSIOT_NETWORK_TYPE_BLE

\* C18: a connected event that arrives while no network is active makes that
\* network the active one, disables every other configured network type
\* (configENABLED_NETWORKS minus the selected one) and invokes the connected
\* callback, when one is registered, exactly once with the selected
\* network's interface, connection parameters and credentials.
C18_FirstConnectionSelected ==
    [][(/\ EventStep /\ IsConnectEvent(netLast')
        /\ demoConnectedNetwork = AWSIOT_NETWORK_TYPE_NONE)
       => LET n == netLast'.network
              rest == Configured \ {n}
          IN /\ demoConnectedNetwork' = n
             /\ mgrEnabled' = mgrEnabled \ rest
             /\ mgrEnabled' \cap rest = {}
             /\ rest # {} => Called(netLast', CallDisable(rest))
             /\ \A i \in CallsOf(netLast', "DisableNetwork") :
                   netLast'.calls[i].mask = rest
             /\ CallsOf(netLast', "EnableNetwork") = {}
             /\ CallsOf(netLast', "networkDisconnectedCallback") = {}
             /\ Cardinality(CallsOf(netLast', "networkConnectedCallback"))
                   = (IF netCfg.networkConnectedCallback THEN 1 ELSE 0)
             /\ ConnectedWith(netLast', n)]_vars

\* Bluetooth connected first: it is active, Wi-Fi was disabled and the
\* connected callback ran with Bluetooth.
C18_Witness ==
    /\ IsConnectEvent(netLast)
    /\ netLast.pre = AWSIOT_NETWORK_TYPE_NONE
    /\ netLast.network = AWSIOT_NETWORK_TYPE_BLE
    /\ netLast.calls = <<CallPost, CallDisable({AWSIOT_NETWORK_TYPE_WIFI}),
                         CallConnected(AWSIOT_NETWORK_TYPE_BLE)>>
    /\ demoConnectedNetwork = AWSIOT_NETWORK_TYPE_BLE
    /\ AWSIOT_NETWORK_TYPE_WIFI \notin mgrEnabled

\* The callbacks and manager calls an event's handling made, in order.
CallOps(e) == [i \in 1 .. Len(e.calls) |-> e.calls[i].op]

\* C19: when the active network reports Disabled or Unknown the manager
\* invokes the disconnected callback, then re-enables all configured network
\* types (the one that just disconnected included), then recomputes the
\* active network from the connected networks; if one is connected it
\* invokes the connected callback with that network's parameters, and if
\* none is connected the active network becomes NoNetwork.
C19_ActiveDisconnectRecovers ==
    [][(/\ EventStep /\ IsDisconnectEvent(netLast')
        /\ demoConnectedNetwork = netLast'.network)
       => LET now == demoConnectedNetwork'
              reachable == mgrConnected' \cap netCfg.networkTypes
          IN /\ CallOps(netLast') =
                   If(netCfg.networkDisconnectedCallback,
                      <<"networkDisconnectedCallback">>)
                   \o <<"EnableNetwork">>
                   \o If(now # AWSIOT_NETWORK_TYPE_NONE
                           /\ netCfg.networkConnectedCallback,
                         <<"networkConnectedCallback">>)
             /\ Called(netLast', CallEnable(Configured))
             /\ Configured \subseteq mgrEnabled'
             /\ reachable = {} => now = AWSIOT_NETWORK_TYPE_NONE
             /\ reachable # {} => (now \in reachable /\ ConnectedWith(netLast', now))
             /\ netCfg.networkDisconnectedCallback =>
                   Called(netLast', CallDisconnected(netLast'.network))]_vars

\* C20: a state-change event that is neither a connected event while no
\* network is active nor a Disabled/Unknown event of the active network is
\* ignored: the active network is unchanged, no network is enabled or
\* disabled, the wait semaphore is not posted and no callback is invoked.
C20_OtherEventsIgnored ==
    [][(/\ EventStep
        /\ ~(/\ IsConnectEvent(netLast')
             /\ demoConnectedNetwork = AWSIOT_NETWORK_TYPE_NONE)
        /\ ~(/\ IsDisconnectEvent(netLast')
             /\ demoConnectedNetwork = netLast'.network))
       => /\ demoConnectedNetwork' = demoConnectedNetwork
          /\ mgrEnabled' = mgrEnabled
          /\ demoNetworkSemaphore' = demoNetworkSemaphore
          /\ netLast'.calls = <<>>]_vars

\* Wi-Fi is active and both callbacks are registered; a connected event of
\* Wi-Fi and, before it, a Disabled event of Bluetooth were ignored.
C20_Witness ==
    /\ netCfg.networkConnectedCallback /\ netCfg.networkDisconnectedCallback
    /\ demoConnectedNetwork = AWSIOT_NETWORK_TYPE_WIFI
    /\ IsConnectEvent(netLast)
    /\ netLast.pre = AWSIOT_NETWORK_TYPE_WIFI /\ netLast.calls = <<>>
    /\ netPrev.state = "eNetworkStateDisabled"
    /\ netPrev.network = AWSIOT_NETWORK_TYPE_BLE
    /\ netPrev.pre = AWSIOT_NETWORK_TYPE_WIFI /\ netPrev.calls = <<>>
    /\ demoNetworkSemaphore.count = 1

\* ------------------------------------------------ the receive loop and setup
\* C21: once the session is established and the subscription has succeeded the
\* MQTT task stays in the receive loop: whatever MQTT_ProcessLoop returns,
\* success or error, its next position is the loop again.
C21_LoopNeverLeft == [][pcM = "loop" => pcM' = "loop"]_vars

\* The loop has handled a delta that failed and one that was accepted, and a
\* cycle of the other tasks has completed, and the task is still in the loop.
C21_Witness ==
    /\ pcM = "loop"
    /\ xUpdateDeltaReturn = "pdFAIL"
    /\ ulCurrentVersion = MaxVersion
    /\ nDone > 0

\* No delta was ever handled: the handler's variables hold their first values
\* and the actuator was never woken.
NoDeltaHandled ==
    /\ ulCurrentVersion = 0 /\ ulCurrentLockState = 0 /\ ~stateChanged
    /\ xUpdateDeltaReturn = "pdPASS"
    /\ nWake = 0 /\ actuatorNotify = 0 /\ lockLine = 0

Returned == {"exit", "EXIT_FAILURE", "EXIT_SUCCESS"}

\* C22: a failure during setup aborts the client.  The task returns without
\* calling RunDeviceShadowClient only from network_initialize; the client
\* returns only from a failed EstablishMqttSession or SubscribeToTopic, and
\* then EXIT_FAILURE; the subscription is attempted only after the session,
\* the loop entered only after the subscription; a task that returned takes no
\* further step, and outside the loop no delta was ever handled.
C22_SetupFailureAborts ==
    [][ /\ pcM' # "EXIT_SUCCESS"
        /\ pcM' # "loop" => NoDeltaHandled'
        /\ pcM' = "exit" => actuatorHandle' = "NULL"
        /\ pcM \in Returned => UNCHANGED mqttVars
        /\ (pcM' = "exit" /\ pcM # "exit") => pcM = "netinit"
        /\ (pcM' = "EXIT_FAILURE" /\ pcM # "EXIT_FAILURE")
               => pcM \in {"establish", "subscribe"}
        /\ (pcM' = "subscribe" /\ pcM # "subscribe") => pcM = "establish"
        /\ (pcM' = "loop" /\ pcM # "loop") => pcM = "subscribe"
      ]_vars

\* The client returned EXIT_FAILURE after it had stored the actuator's handle,
\* and the publish task went on to wait for a wake that cannot come.
C22_Witness ==
    /\ pcM = "EXIT_FAILURE"
    /\ actuatorHandle = "actuator"
    /\ pcP = "take"
    /\ NoDeltaHandled

\* ------------------------------------------------- writers of the shadow state
\* C23: the lock state, the shadow version and the pending flag are written
\* only by the delta handler: every step of the publish task and of the
\* actuator task leaves all three unchanged.
C23_HandlerIsOnlyWriter ==
    [][(publishCurrentStateTask \/ runActuatorTask)
          => UNCHANGED <<ulCurrentLockState, ulCurrentVersion, stateChanged>>
      ]_vars

\* C23, as the code has it: the version and the pending flag are written only
\* by the delta handler; the actuator task writes none of the three; the
\* publish task writes the lock state, to Open when its cycle starts and to
\* Closed after the dwell, and at no other step.
C23_WritersOfShadowState ==
    [][ /\ (publishCurrentStateTask \/ runActuatorTask)
              => UNCHANGED <<ulCurrentVersion, stateChanged>>
        /\ runActuatorTask => UNCHANGED ulCurrentLockState
        /\ (publishCurrentStateTask /\ ulCurrentLockState' # ulCurrentLockState)
              => \/ PublishWake /\ ulCurrentLockState' = LOCK_STATE_OPEN
                 \/ PublishClose /\ ulCurrentLockState' = LOCK_STATE_CLOSE
        /\ (PublishWake \/ PublishClose)
              => ulCurrentLockState' \in {LOCK_STATE_OPEN, LOCK_STATE_CLOSE}
      ]_vars

\* The publish task has just set the lock state back to Closed, after a delta
\* had opened it: the version and the pending flag are the handler's.
C23_Witness ==
    /\ pcP = "serialize"
    /\ ulCurrentLockState = LOCK_STATE_CLOSE
    /\ ulCurrentVersion > 0
    /\ stateChanged
    /\ nDone > 0

\* --------------------------------------------------------- the pending flag
\* C24: the pending flag is transient: with one opening delta and no further
\* deltas, the flag is clear again when the report cycle it led to completes
\* (the second acknowledgment wait ends).
C24_PendingCleared == [][PublishAck2 => stateChanged' = FALSE]_vars

\* ------------------------------------------------------ range of the lock state
\* C25: the lock state is always Closed (0) or Open (1), whatever deltas are
\* received and however they interleave with the publish cycles.
C25_LockStateInRange ==
    ulCurrentLockState \in {LOCK_STATE_CLOSE, LOCK_STATE_OPEN}

\* ------------------------------------------------------- the shadow version
\* The version a payload carries, as the handler extracts it: the number its
\* "version" text converts to when the payload validates and has the key.
ExtractedVersion(m) ==
    IF JSON_Validate(m) /\ JSON_Search(m, "version").found
    THEN strtoul(JSON_Search(m, "version").out)
    ELSE 0

Max(a, b) == IF a >= b THEN a ELSE b

\* C26: the shadow version starts at 0, never decreases, changes only when a
\* delta with a strictly greater version is handled, and after every call of
\* the handler is the larger of its value before the call and the version the
\* delta carried (hence the largest of 0 and every version seen so far).
C26_VersionIsMaxSeen ==
    /\ lastMsg = NoMsg => ulCurrentVersion = 0
    /\ lastMsg # NoMsg =>
          /\ ulCurrentVersion >= pre.version
          /\ ulCurrentVersion # pre.version
                => ExtractedVersion(lastMsg) > pre.version
          /\ ulCurrentVersion = Max(pre.version, ExtractedVersion(lastMsg))

\* A delta with an older version was just handled and the version stayed at
\* the largest one seen.
C26_Witness ==
    /\ lastMsg.valid /\ lastMsg.version = IntTok(1)
    /\ pre.version = MaxVersion
    /\ ulCurrentVersion = MaxVersion

OnlyGives ==
    /\ UNCHANGED <<pcA, lockLine, pcP, publishNotify, docDesired>>
    /\ actuatorNotify' \in {actuatorNotify, actuatorNotify + 1}
    /\ xPubAckWaitLock' \in {xPubAckWaitLock, "full"}

\* C28: the delta handler never blocks: in the receive loop, whatever the
\* positions of the actuator and publish tasks and whatever their
\* notification values and the semaphore hold, a payload that fails
\* validation and every delta the cloud can send can be handled at once
\* (while the wake count is below its bound), and the handling does nothing
\* to the other tasks but the non-blocking gives.
C28_HandlerNeverBlocks ==
    (pcM = "loop" /\ nWake < MaxWakes) =>
        \A m \in CloudDeltas \cup {InvalidMsg} :
           ENABLED (ReceivePacket(DeltaPacket(m)) /\ OnlyGives)

\* A delta can be handled while the publish task is blocked waiting for an
\* acknowledgment that has not arrived and the actuator is blocked waiting
\* for a wake.
C28_Witness ==
    /\ pcM = "loop" /\ nWake < MaxWakes
    /\ pcA = "take" /\ actuatorNotify = 0
    /\ pcP = "ack1" /\ xPubAckWaitLock = "empty" /\ inflight = 1
    /\ ENABLED ReceivePacket(DeltaPacket(OpenDelta(MaxVersion)))

C29_AckAnswersLastPublish ==
    [][ /\ (PublishReported \/ PublishDesired) => xPubAckWaitLock # "full"
        /\ (inflight' < inflight /\ pcP \in {"ack1", "ack2"}) => inflight = 1
      ]_vars

\* --------------------------------------------- the network at initialisation
\* C31: when network_initialize returns EXIT_SUCCESS for a context with
\* non-empty networkTypes, the active network is not NONE, whatever events
\* the callback handled while the initializer ran: the initializer's last
\* assignment to demoConnectedNetwork, after which it returns success, never
\* stores NONE.
C31_SuccessHasNetwork ==
    [][(pcN' = "done" /\ pcN # "done" /\ netCfg.networkTypes # {})
          => demoConnectedNetwork' # AWSIOT_NETWORK_TYPE_NONE
      ]_vars

\* ------------------------------------------------- one network at a time
\* C32: in every reachable state of the connectivity manager in which a
\* network is active, every other configured network type is disabled.
C32_OthersDisabled ==
    demoConnectedNetwork # AWSIOT_NETWORK_TYPE_NONE
        => mgrEnabled \cap (Configured \ {demoConnectedNetwork}) = {}

\* --------------------------------------------------- the callbacks alternate
\* The connected and disconnected callbacks an event's handling invoked, in
\* order.
Callbacks(e) == SelectSeq(CallOps(e), LAMBDA op :
    op \in {"networkConnectedCallback", "networkDisconnectedCallback"})

Alternates(ops) ==
    \A i \in 1 .. Len(ops) - 1 : ops[i] # ops[i + 1]

\* C33: connected and disconnected callbacks strictly alternate, starting
\* with connected.  So the callbacks of two events handled one after the
\* other alternate, and the first event ever handled does not start with the
\* disconnected callback.
C33_CallbacksAlternate ==
    /\ Alternates(Callbacks(netPrev) \o Callbacks(netLast))
    /\ (netPrev = NoNetEvent /\ Callbacks(netLast) # <<>>)
          => Head(Callbacks(netLast)) = "networkConnectedCallback"

====
